---- MODULE Spec2Model ----
(***************************************************************************)
(* A model of the RESP3 codec of resp-go: the decoder (resp3/decoder.go,    *)
(* resp3/util.go) reading from a bufio.Reader, and the encoder              *)
(* (resp3/encoder.go).  Bytes are one-character strings; a byte string is a *)
(* sequence of them.                                                        *)
(***************************************************************************)
EXTENDS Integers, Sequences, FiniteSets, TLC

CR == "\r"
LF == "\n"
CRLF == <<CR, LF>>

Digits == {"0", "1", "2", "3", "4", "5", "6", "7", "8", "9"}

DigitVal(c) ==
  CASE c = "0" -> 0 [] c = "1" -> 1 [] c = "2" -> 2 [] c = "3" -> 3
    [] c = "4" -> 4 [] c = "5" -> 5 [] c = "6" -> 6 [] c = "7" -> 7
    [] c = "8" -> 8 [] c = "9" -> 9

Min(a, b) == IF a < b THEN a ELSE b

Drop(s, n) == SubSeq(s, n + 1, Len(s))

Take(s, n) == SubSeq(s, 1, n)

(***************************************************************************)
(* Decoded values: Go's interface{} results of Decode, as records of one    *)
(* shape.  t is the dynamic type; s the text of a string or the message of  *)
(* an error; n an int64, the digits of a float64 or a bool (1/0); d the     *)
(* decimal exponent of a float64; e the elements of a []interface{}; m the  *)
(* entries of a map, in order of first insertion.                           *)
(***************************************************************************)
Val(t, s, n, d, e, m) == [t |-> t, s |-> s, n |-> n, d |-> d, e |-> e, m |-> m]

Nil == Val("nil", <<>>, 0, 0, <<>>, <<>>)

Str(s) == Val("string", s, 0, 0, <<>>, <<>>)

ErrorVal(s) == Val("error", s, 0, 0, <<>>, <<>>)

Int64(n) == Val("int64", <<>>, n, 0, <<>>, <<>>)

Float64(n, d) == Val("float64", <<>>, n, d, <<>>, <<>>)

Bool(b) == Val("bool", <<>>, IF b THEN 1 ELSE 0, 0, <<>>, <<>>)

Slice(e) == Val("[]interface{}", <<>>, 0, 0, e, <<>>)

MapVal(t, m) == Val(t, <<>>, 0, 0, <<>>, m)

(***************************************************************************)
(* The errors Decode returns.                                               *)
(***************************************************************************)
NoErr == "nil"
EOF == "io.EOF"
ErrUnexpectedEOF == "io.ErrUnexpectedEOF"
ErrUnsupportedRespDataType == "ErrUnsupportedRespDataType"
ErrSyntax == "strconv.ErrSyntax"
Panic == "panic"
\* no return at all: the call is inside a Read of the source
Waiting == "waiting"

(***************************************************************************)
(* bufio.Reader over a source: buf is the buffered, unread bytes, src the   *)
(* bytes the source holds now, size the capacity of the buffer.  A closed   *)
(* source (strings.Reader, bytes.Buffer, a connection the peer has closed)  *)
(* delivers what it holds and then io.EOF.  A Read of an open source (a     *)
(* connection, a pipe) that holds nothing does not return before the peer   *)
(* sends or closes: blocked says that the reader has reached such a Read,   *)
(* and what is computed after it is what the call never gets to.            *)
(***************************************************************************)
Reader(buf, src, size) ==
  [buf |-> buf, src |-> src, size |-> size, open |-> FALSE, blocked |-> FALSE]

OpenReader(buf, src, size) == [Reader(buf, src, size) EXCEPT !.open = TRUE]

Buffered(rd) == Len(rd.buf)

\* a Read of the source when it holds nothing
AtEnd(rd) == [rd EXCEPT !.blocked = @ \/ rd.open]

\* bufio.Reader.fill: one Read of the source into the free part of the buffer.
Fill(rd) ==
  LET n == Min(rd.size - Len(rd.buf), Len(rd.src))
  IN  IF rd.src = <<>> THEN AtEnd(rd)
      ELSE [rd EXCEPT !.buf = @ \o Take(rd.src, n), !.src = Drop(@, n)]

\* bufio.Reader.ReadByte
ReadByte(rd) ==
  LET r == IF rd.buf = <<>> THEN Fill(rd) ELSE rd
  IN  IF r.buf = <<>>
        THEN [b |-> "", err |-> EOF, rd |-> r]
        ELSE [b |-> Head(r.buf), err |-> NoErr, rd |-> [r EXCEPT !.buf = Tail(@)]]

\* index of the first delim in s, 0 when there is none
RECURSIVE IndexFrom(_, _, _)
IndexFrom(s, delim, i) ==
  IF i > Len(s) THEN 0
  ELSE IF s[i] = delim THEN i
  ELSE IndexFrom(s, delim, i + 1)

IndexByte(s, delim) == IndexFrom(s, delim, 1)

\* bufio.Reader.ReadString: everything up to and including the first delim;
\* at the end of the source, everything read and io.EOF.
RECURSIVE ReadStringFrom(_, _, _)
ReadStringFrom(rd, delim, acc) ==
  LET i == IndexByte(rd.buf, delim)
  IN  IF i > 0
        THEN [line |-> acc \o Take(rd.buf, i), err |-> NoErr,
              rd |-> [rd EXCEPT !.buf = Drop(@, i)]]
      ELSE IF rd.src = <<>>
        THEN [line |-> acc \o rd.buf, err |-> EOF, rd |-> AtEnd([rd EXCEPT !.buf = <<>>])]
      ELSE IF Len(rd.buf) >= rd.size
        THEN ReadStringFrom([rd EXCEPT !.buf = <<>>], delim, acc \o rd.buf)
      ELSE ReadStringFrom(Fill(rd), delim, acc)

ReadString(rd, delim) == ReadStringFrom(rd, delim, <<>>)

\* bufio.Reader.Read(p) with len(p) = n >= 0: one copy out of the buffer; with
\* the buffer empty, one Read of the source first (straight into p when p is
\* at least as large as the buffer).
Read(rd, n) ==
  IF n = 0 THEN [p |-> <<>>, err |-> NoErr, rd |-> rd]
  ELSE IF rd.buf = <<>> /\ rd.src = <<>> THEN [p |-> <<>>, err |-> EOF, rd |-> AtEnd(rd)]
  ELSE IF rd.buf = <<>> /\ n >= rd.size
    THEN LET k == Min(n, Len(rd.src))
         IN  [p |-> Take(rd.src, k), err |-> NoErr, rd |-> [rd EXCEPT !.src = Drop(@, k)]]
  ELSE LET r == IF rd.buf = <<>> THEN Fill(rd) ELSE rd
           k == Min(n, Len(r.buf))
       IN  [p |-> Take(r.buf, k), err |-> NoErr, rd |-> [r EXCEPT !.buf = Drop(@, k)]]

\* bufio.Reader.Discard(n), n >= 0: skips n bytes, fewer when the source ends.
RECURSIVE Discard(_, _)
Discard(rd, n) ==
  IF n = 0 THEN [err |-> NoErr, rd |-> rd]
  ELSE LET r == IF rd.buf = <<>> THEN Fill(rd) ELSE rd
           skip == Min(n, Len(r.buf))
       IN  IF r.buf = <<>>
             THEN [err |-> EOF, rd |-> r]
             ELSE Discard([r EXCEPT !.buf = Drop(@, skip)], n - skip)

(***************************************************************************)
(* resp3/util.go                                                            *)
(***************************************************************************)
\* readLineCRLF turning io.EOF after some bytes into io.ErrUnexpectedEOF
readLineCRLFPartialAtEnd(rd) ==
  LET r == ReadString(rd, LF)
      n == Len(r.line)
  IN  IF r.err # NoErr
        THEN [line |-> <<>>, err |-> IF n > 0 THEN ErrUnexpectedEOF ELSE r.err, rd |-> r.rd]
      ELSE IF n < 2 \/ r.line[n - 1] # CR
        THEN [line |-> <<>>, err |-> ErrUnexpectedEOF, rd |-> r.rd]
      ELSE [line |-> Take(r.line, n - 2), err |-> NoErr, rd |-> r.rd]

\* readLineCRLF: the line without its CRLF; the error of ReadString as it is;
\* io.ErrUnexpectedEOF for a line that does not end in CRLF.
readLineCRLF(rd) ==
  LET r == ReadString(rd, LF)
      n == Len(r.line)
  IN  IF r.err # NoErr THEN [line |-> <<>>, err |-> r.err, rd |-> r.rd]
      ELSE IF n < 2 \/ r.line[n - 1] # CR
        THEN [line |-> <<>>, err |-> ErrUnexpectedEOF, rd |-> r.rd]
      ELSE [line |-> Take(r.line, n - 2), err |-> NoErr, rd |-> r.rd]

(***************************************************************************)
(* strconv                                                                  *)
(***************************************************************************)
RECURSIVE DigitsValue(_, _)
DigitsValue(s, acc) ==
  IF s = <<>> THEN acc ELSE DigitsValue(Tail(s), 10 * acc + DigitVal(Head(s)))

AllDigits(s) == \A i \in 1..Len(s) : s[i] \in Digits

\* strconv.Atoi: an optional sign and one or more decimal digits; 0 and
\* ErrSyntax for anything else.  (Lines here are too short to overflow int.)
Atoi(s) ==
  LET signed == s # <<>> /\ Head(s) \in {"+", "-"}
      ds == IF signed THEN Tail(s) ELSE s
  IN  IF ds = <<>> \/ ~AllDigits(ds) THEN [n |-> 0, err |-> ErrSyntax]
      ELSE [n |-> IF signed /\ Head(s) = "-" THEN -DigitsValue(ds, 0) ELSE DigitsValue(ds, 0),
            err |-> NoErr]

\* a decimal n * 10^-d without trailing zeros in its fraction
RECURSIVE Normalize(_, _)
Normalize(n, d) ==
  IF d > 0 /\ n % 10 = 0 THEN Normalize(n \div 10, d - 1) ELSE [n |-> n, d |-> d]

\* strconv.ParseFloat on the decimal literals [sign] digits [. digits] with at
\* least one digit; ErrSyntax for any other text over the bytes used here
\* (no exponent, hexadecimal, "inf" or "nan" can be spelled with them).
ParseFloat(s) ==
  LET signed == s # <<>> /\ Head(s) \in {"+", "-"}
      body == IF signed THEN Tail(s) ELSE s
      dot == IndexByte(body, ".")
      ip == IF dot = 0 THEN body ELSE Take(body, dot - 1)
      fp == IF dot = 0 THEN <<>> ELSE Drop(body, dot)
      mag == Normalize(DigitsValue(ip \o fp, 0), Len(fp))
  IN  IF ip \o fp = <<>> \/ ~AllDigits(ip \o fp) THEN [n |-> 0, d |-> 0, err |-> ErrSyntax]
      ELSE [n |-> IF signed /\ Head(s) = "-" THEN -mag.n ELSE mag.n, d |-> mag.d, err |-> NoErr]

(***************************************************************************)
(* resp3/decoder.go                                                         *)
(***************************************************************************)
\* what a Decode call returns, and the reader as the call leaves it
Result(val, err, rd) == [val |-> val, err |-> err, rd |-> rd]

\* the "err == io.EOF || err == io.ErrUnexpectedEOF" test after each read
IsEOF(err) == err \in {EOF, ErrUnexpectedEOF}

\* case '+'
DecodeSimpleString(rd) ==
  LET l == readLineCRLF(rd)
  IN  IF IsEOF(l.err) THEN Result(Nil, ErrUnexpectedEOF, l.rd)
      ELSE IF l.err # NoErr THEN Result(Nil, l.err, l.rd)
      ELSE Result(Str(l.line), NoErr, l.rd)

\* case '-'
DecodeError(rd) ==
  LET l == readLineCRLF(rd)
  IN  IF IsEOF(l.err) THEN Result(Nil, ErrUnexpectedEOF, l.rd)
      ELSE IF l.err # NoErr THEN Result(Nil, l.err, l.rd)
      ELSE Result(ErrorVal(l.line), NoErr, l.rd)

\* case ':'
DecodeInteger(rd) ==
  LET l == readLineCRLF(rd)
      x == Atoi(l.line)
  IN  IF IsEOF(l.err) THEN Result(Nil, ErrUnexpectedEOF, l.rd)
      ELSE IF l.err # NoErr THEN Result(Nil, l.err, l.rd)
      ELSE IF Len(l.line) = 0 THEN Result(Nil, ErrUnexpectedEOF, l.rd)
      ELSE IF x.err # NoErr THEN Result(Nil, x.err, l.rd)
      ELSE Result(Int64(x.n), NoErr, l.rd)

\* case ','
DecodeFloat(rd) ==
  LET l == readLineCRLF(rd)
      x == ParseFloat(l.line)
  IN  IF IsEOF(l.err) THEN Result(Nil, ErrUnexpectedEOF, l.rd)
      ELSE IF l.err # NoErr THEN Result(Nil, l.err, l.rd)
      ELSE IF x.err # NoErr THEN Result(Float64(0, 0), x.err, l.rd)
      ELSE Result(Float64(x.n, x.d), NoErr, l.rd)

\* DecodeBulkString asking for one buffered byte too many
DecodeBulkStringOffByOne(rd) ==
  LET l == readLineCRLF(rd)
      length == Atoi(l.line)
      value == Read(l.rd, length.n)
      dis == Discard(value.rd, 2)
  IN  IF IsEOF(l.err) THEN Result(Nil, ErrUnexpectedEOF, l.rd)
      ELSE IF l.err # NoErr THEN Result(Nil, l.err, l.rd)
      ELSE IF length.err # NoErr THEN Result(Nil, length.err, l.rd)
      ELSE IF length.n = -1 THEN Result(Nil, NoErr, l.rd)
      ELSE IF Buffered(l.rd) <= length.n + 2 THEN Result(Nil, ErrUnexpectedEOF, l.rd)
      ELSE IF length.n < 0 THEN Result(Nil, Panic, l.rd)
      ELSE Result(Str(value.p), NoErr, dis.rd)

\* case '$'
DecodeBulkString(rd) ==
  LET l == readLineCRLF(rd)
      length == Atoi(l.line)
      value == Read(l.rd, length.n)
      dis == Discard(value.rd, 2)
  IN  IF IsEOF(l.err) THEN Result(Nil, ErrUnexpectedEOF, l.rd)
      ELSE IF l.err # NoErr THEN Result(Nil, l.err, l.rd)
      ELSE IF length.err # NoErr THEN Result(Nil, length.err, l.rd)
      ELSE IF length.n = -1 THEN Result(Nil, NoErr, l.rd)
      ELSE IF Buffered(l.rd) < length.n + 2 THEN Result(Nil, ErrUnexpectedEOF, l.rd)
      ELSE IF length.n < 0 THEN Result(Nil, Panic, l.rd)
      ELSE IF IsEOF(value.err) THEN Result(Nil, ErrUnexpectedEOF, value.rd)
      ELSE IF value.err # NoErr THEN Result(Nil, value.err, value.rd)
      ELSE IF dis.err # NoErr THEN Result(Nil, dis.err, dis.rd)
      ELSE Result(Str(value.p), NoErr, dis.rd)

\* case '='
DecodeVerbatimString(rd) ==
  LET l == readLineCRLF(rd)
      length == Atoi(l.line)
      value == Read(l.rd, length.n)
      dis == Discard(value.rd, 2)
  IN  IF IsEOF(l.err) THEN Result(Nil, ErrUnexpectedEOF, l.rd)
      ELSE IF l.err # NoErr THEN Result(Nil, l.err, l.rd)
      ELSE IF length.err # NoErr THEN Result(Nil, length.err, l.rd)
      ELSE IF length.n = -1 THEN Result(Nil, NoErr, l.rd)
      ELSE IF length.n = 0 THEN Result(Str(<<>>), NoErr, l.rd)
      ELSE IF Buffered(l.rd) < length.n + 2 THEN Result(Nil, ErrUnexpectedEOF, l.rd)
      ELSE IF length.n < 0 THEN Result(Nil, Panic, l.rd)
      ELSE IF IsEOF(value.err) THEN Result(Nil, ErrUnexpectedEOF, value.rd)
      ELSE IF value.err # NoErr THEN Result(Nil, value.err, value.rd)
      ELSE Result(Str(value.p), NoErr, dis.rd)

\* case '!'
DecodeBlobError(rd) ==
  LET l == readLineCRLF(rd)
      length == Atoi(l.line)
      value == Read(l.rd, length.n)
      dis == Discard(value.rd, 2)
  IN  IF IsEOF(l.err) THEN Result(Nil, ErrUnexpectedEOF, l.rd)
      ELSE IF l.err # NoErr THEN Result(Nil, l.err, l.rd)
      ELSE IF length.err # NoErr THEN Result(Nil, length.err, l.rd)
      ELSE IF Buffered(l.rd) < length.n + 2 THEN Result(Nil, ErrUnexpectedEOF, l.rd)
      ELSE IF length.n < 0 THEN Result(Nil, Panic, l.rd)
      ELSE IF IsEOF(value.err) THEN Result(Nil, ErrUnexpectedEOF, value.rd)
      ELSE IF value.err # NoErr THEN Result(Nil, value.err, value.rd)
      ELSE Result(ErrorVal(value.p), NoErr, dis.rd)

\* case '#': the error of Discard is dropped
DecodeBoolean(rd) ==
  LET b == ReadByte(rd)
      dis == Discard(b.rd, 2)
  IN  IF IsEOF(b.err) THEN Result(Nil, ErrUnexpectedEOF, b.rd)
      ELSE Result(Bool(b.b = "t"), NoErr, dis.rd)

\* case '_': the error of Discard is dropped
DecodeNull(rd) == Result(Nil, NoErr, Discard(rd, 2).rd)

\* default
DecodeUnsupported(rd) == Result(Nil, ErrUnsupportedRespDataType, rd)

\* Go map keys must be hashable: a slice or a map as a key panics
Hashable(key) == key.t \in {"nil", "string", "error", "int64", "float64", "bool"}

\* tempMap[key] = value.  Two error values are two pointers, never one key.
MapAssign(m, key, value) ==
  IF key.t # "error" /\ \E i \in 1..Len(m) : m[i].k = key
    THEN [i \in 1..Len(m) |-> IF m[i].k = key THEN [k |-> key, v |-> value] ELSE m[i]]
    ELSE Append(m, [k |-> key, v |-> value])

\* KeyFlags with the two flags swapped
KeyFlagsSwapped(flags, key) ==
  IF key.t = "string" THEN [str |-> FALSE, int |-> flags.int]
  ELSE IF key.t = "int64" THEN [str |-> flags.str, int |-> FALSE]
  ELSE [str |-> FALSE, int |-> FALSE]

\* the flags isAllStringKeys, isAllInt64Keys after the type switch on a key
KeyFlags(flags, key) ==
  IF key.t = "string" THEN [str |-> flags.str, int |-> FALSE]
  ELSE IF key.t = "int64" THEN [str |-> FALSE, int |-> flags.int]
  ELSE [str |-> FALSE, int |-> FALSE]

\* the map returned for the flags
FinalMap(flags, tempMap) ==
  IF flags.str THEN MapVal("map[string]interface{}", tempMap)
  ELSE IF flags.int THEN MapVal("map[int64]interface{}", tempMap)
  ELSE MapVal("map[interface{}]interface{}", tempMap)

RECURSIVE Decode(_), ArrayElements(_, _, _, _), MapEntries(_, _, _, _, _)

\* ArrayElements reporting every error of a child as partial
ArrayElementsAllPartial(rd, count, i, array) ==
  IF i >= count THEN Result(Slice(array), NoErr, rd)
  ELSE IF Buffered(rd) = 0 THEN Result(Nil, ErrUnexpectedEOF, rd)
  ELSE LET element == Decode(rd)
       IN  IF element.err # NoErr THEN Result(Nil, ErrUnexpectedEOF, element.rd)
           ELSE ArrayElements(element.rd, count, i + 1, Append(array, element.val))

\* ArrayElements going on after an element that is malformed
ArrayElementsSkipMalformed(rd, count, i, array) ==
  IF i >= count THEN Result(Slice(array), NoErr, rd)
  ELSE IF Buffered(rd) = 0 THEN Result(Nil, ErrUnexpectedEOF, rd)
  ELSE LET element == Decode(rd)
       IN  IF IsEOF(element.err) THEN Result(Nil, ErrUnexpectedEOF, element.rd)
           ELSE IF element.err # NoErr
             THEN ArrayElements(element.rd, count, i + 1, Append(array, Nil))
           ELSE ArrayElements(element.rd, count, i + 1, Append(array, element.val))

\* the loop of case '*', from element i on
ArrayElements(rd, count, i, array) ==
  IF i >= count THEN Result(Slice(array), NoErr, rd)
  ELSE IF Buffered(rd) = 0 THEN Result(Nil, ErrUnexpectedEOF, rd)
  ELSE LET element == Decode(rd)
       IN  IF IsEOF(element.err) THEN Result(Nil, ErrUnexpectedEOF, element.rd)
           ELSE IF element.err # NoErr THEN Result(Nil, element.err, element.rd)
           ELSE ArrayElements(element.rd, count, i + 1, Append(array, element.val))

\* DecodeArray without the null array: a count of -1 read as no elements
DecodeArrayNullAsEmpty(rd) ==
  LET l == readLineCRLF(rd)
      count == Atoi(l.line)
  IN  IF IsEOF(l.err) THEN Result(Nil, ErrUnexpectedEOF, l.rd)
      ELSE IF l.err # NoErr THEN Result(Nil, l.err, l.rd)
      ELSE IF count.err # NoErr THEN Result(Nil, count.err, l.rd)
      ELSE ArrayElements(l.rd, count.n, 0, <<>>)

\* case '*'
DecodeArray(rd) ==
  LET l == readLineCRLF(rd)
      count == Atoi(l.line)
  IN  IF IsEOF(l.err) THEN Result(Nil, ErrUnexpectedEOF, l.rd)
      ELSE IF l.err # NoErr THEN Result(Nil, l.err, l.rd)
      ELSE IF count.err # NoErr THEN Result(Nil, count.err, l.rd)
      ELSE IF count.n = -1 THEN Result(Nil, NoErr, l.rd)
      ELSE IF count.n < 0 THEN Result(Nil, Panic, l.rd)
      ELSE ArrayElements(l.rd, count.n, 0, <<>>)

\* MapEntries returning the error of a value as it is, io.EOF included
MapEntriesRawEOF(rd, size, i, tempMap, flags) ==
  IF i >= size THEN Result(FinalMap(flags, tempMap), NoErr, rd)
  ELSE IF Buffered(rd) = 0 THEN Result(Nil, ErrUnexpectedEOF, rd)
  ELSE LET key == Decode(rd)
           value == Decode(key.rd)
       IN  IF IsEOF(key.err) THEN Result(Nil, ErrUnexpectedEOF, key.rd)
           ELSE IF key.err # NoErr THEN Result(Nil, key.err, key.rd)
           ELSE IF value.err # NoErr THEN Result(Nil, value.err, value.rd)
           ELSE IF key.val = Nil
             THEN MapEntries(value.rd, size, i + 2, tempMap, flags)
           ELSE IF ~Hashable(key.val) THEN Result(Nil, Panic, value.rd)
           ELSE MapEntries(value.rd, size, i + 2, MapAssign(tempMap, key.val, value.val),
                           KeyFlags(flags, key.val))

\* MapEntries skipping a Null key before its value is decoded
MapEntriesSkipValue(rd, size, i, tempMap, flags) ==
  IF i >= size THEN Result(FinalMap(flags, tempMap), NoErr, rd)
  ELSE IF Buffered(rd) = 0 THEN Result(Nil, ErrUnexpectedEOF, rd)
  ELSE LET key == Decode(rd)
           value == Decode(key.rd)
       IN  IF IsEOF(key.err) THEN Result(Nil, ErrUnexpectedEOF, key.rd)
           ELSE IF key.err # NoErr THEN Result(Nil, key.err, key.rd)
           ELSE IF key.val = Nil
             THEN MapEntries(key.rd, size, i + 2, tempMap, flags)
           ELSE IF IsEOF(value.err) THEN Result(Nil, ErrUnexpectedEOF, value.rd)
           ELSE IF value.err # NoErr THEN Result(Nil, value.err, value.rd)
           ELSE IF ~Hashable(key.val) THEN Result(Nil, Panic, value.rd)
           ELSE MapEntries(value.rd, size, i + 2, MapAssign(tempMap, key.val, value.val),
                           KeyFlags(flags, key.val))

\* the loop of case '%', from child i on
MapEntries(rd, size, i, tempMap, flags) ==
  IF i >= size THEN Result(FinalMap(flags, tempMap), NoErr, rd)
  ELSE IF Buffered(rd) = 0 THEN Result(Nil, ErrUnexpectedEOF, rd)
  ELSE LET key == Decode(rd)
           value == Decode(key.rd)
       IN  IF IsEOF(key.err) THEN Result(Nil, ErrUnexpectedEOF, key.rd)
           ELSE IF key.err # NoErr THEN Result(Nil, key.err, key.rd)
           ELSE IF IsEOF(value.err) THEN Result(Nil, ErrUnexpectedEOF, value.rd)
           ELSE IF value.err # NoErr THEN Result(Nil, value.err, value.rd)
           ELSE IF key.val = Nil
             THEN MapEntries(value.rd, size, i + 2, tempMap, flags)
           ELSE IF ~Hashable(key.val) THEN Result(Nil, Panic, value.rd)
           ELSE MapEntries(value.rd, size, i + 2, MapAssign(tempMap, key.val, value.val),
                           KeyFlags(flags, key.val))

\* case '%': the errors of readLineCRLF and of Atoi are dropped
DecodeMap(rd) ==
  LET l == readLineCRLF(rd)
      size == Atoi(l.line)
  IN  MapEntries(l.rd, size.n, 0, <<>>, [str |-> TRUE, int |-> TRUE])

Decode(rd) ==
  LET dataType == ReadByte(rd)
  IN  IF dataType.err # NoErr THEN Result(Nil, dataType.err, dataType.rd)
      ELSE CASE dataType.b = "+" -> DecodeSimpleString(dataType.rd)
             [] dataType.b = "-" -> DecodeError(dataType.rd)
             [] dataType.b = ":" -> DecodeInteger(dataType.rd)
             [] dataType.b = "," -> DecodeFloat(dataType.rd)
             [] dataType.b = "$" -> DecodeBulkString(dataType.rd)
             [] dataType.b = "=" -> DecodeVerbatimString(dataType.rd)
             [] dataType.b = "*" -> DecodeArray(dataType.rd)
             [] dataType.b = "#" -> DecodeBoolean(dataType.rd)
             [] dataType.b = "%" -> DecodeMap(dataType.rd)
             [] dataType.b = "!" -> DecodeBlobError(dataType.rd)
             [] dataType.b = "_" -> DecodeNull(dataType.rd)
             [] OTHER -> DecodeUnsupported(dataType.rd)

(***************************************************************************)
(* Wire records to decode.  Each carries its bytes (wire), the value the    *)
(* grammar and the parse rules give it (val), its class ("wf": well-formed; *)
(* "badtag": an unsupported tag byte somewhere in it is its only defect;    *)
(* "mismatch": a payload longer than its declared length; "nullmap": a map  *)
(* of declared size -1; "badheader": a length or count that is no integer;  *)
(* "stream": a map followed by the bytes of a next record), and the offsets *)
(* at which a child element starts, at any depth (kids).                    *)
(***************************************************************************)
Rec(wire, val, class, kids) ==
  [wire |-> wire, val |-> val, class |-> class, kids |-> kids]

\* the class of a composite with children ks
ClassOf(ks, even) ==
  IF even /\ \A i \in 1..Len(ks) : ks[i].class = "wf" THEN "wf"
  ELSE IF even /\ (\E i \in 1..Len(ks) : ks[i].class = "badtag")
               /\ (\A i \in 1..Len(ks) : ks[i].class \in {"wf", "badtag"}) THEN "badtag"
  ELSE "other"

\* a one-line record: tag, text, CRLF
Line(tag, text, val) == Rec(<<tag>> \o text \o CRLF, val, "wf", {})

\* a length-prefixed record: tag, length, CRLF, payload, CRLF
Blob(tag, length, payload, val) ==
  Rec(<<tag>> \o length \o CRLF \o payload \o CRLF, val, "wf", {})

\* decimal text of a count below 100
Itoa(n) ==
  LET digit(k) == CHOOSE c \in Digits : DigitVal(c) = k
  IN  IF n < 10 THEN <<digit(n)>> ELSE <<digit(n \div 10), digit(n % 10)>>

RECURSIVE Concat(_)
Concat(ws) == IF ws = <<>> THEN <<>> ELSE Head(ws) \o Concat(Tail(ws))

\* offsets of the children ks of a composite whose header is h bytes long,
\* and of their own children
RECURSIVE KidOffsets(_, _)
KidOffsets(ks, h) ==
  IF ks = <<>> THEN {}
  ELSE {h} \cup {h + o : o \in Head(ks).kids} \cup KidOffsets(Tail(ks), h + Len(Head(ks).wire))

Header(tag, n) == <<tag>> \o Itoa(n) \o CRLF

\* array := '*' count CRLF (value){count}
ArrayRec(ks) ==
  Rec(Header("*", Len(ks)) \o Concat([i \in 1..Len(ks) |-> ks[i].wire]),
      Slice([i \in 1..Len(ks) |-> ks[i].val]),
      ClassOf(ks, TRUE),
      KidOffsets(ks, Len(Header("*", Len(ks)))))

\* Two keys of a map are one key when they are equal values; an error is a
\* pointer, equal to itself alone.
SameKey(a, b) == a = b /\ a.t # "error"

\* The entries of a map with children ks (key, value, key, value, ...): pairs
\* whose key is Null are dropped, and a later pair with the same key
\* overwrites the value of an earlier one.
MapEntriesOf(ks) ==
  LET n == Len(ks) \div 2
      key(i) == ks[2 * i - 1].val
      live == {i \in 1..n : key(i) # Nil}
      first == {i \in live : \A j \in live : j < i => ~SameKey(key(j), key(i))}
      last(i) == CHOOSE j \in live : /\ (j = i \/ SameKey(key(j), key(i)))
                                     /\ \A l \in live : SameKey(key(l), key(i)) => l <= j
      entry(i) == [k |-> key(i), v |-> ks[2 * last(i)].val]
      F[i \in 0..n] == IF i = 0 THEN <<>>
                       ELSE IF i \in first THEN Append(F[i - 1], entry(i)) ELSE F[i - 1]
  IN  F[n]

\* The mapping type for the keys: text-keyed when every key that is not Null
\* is text (so also with no keys), else integer-keyed when every such key is
\* an integer, else mixed.
MapTypeOf(ks) ==
  LET keys == {ks[2 * i - 1].val : i \in 1..(Len(ks) \div 2)} \ {Nil}
  IN  IF \A k \in keys : k.t = "string" THEN "map[string]interface{}"
      ELSE IF \A k \in keys : k.t = "int64" THEN "map[int64]interface{}"
      ELSE "map[interface{}]interface{}"

\* map := '%' pair-count-x2 CRLF (value value){pair-count-x2/2}
MapRec(ks) ==
  Rec(Header("%", Len(ks)) \o Concat([i \in 1..Len(ks) |-> ks[i].wire]),
      MapVal(MapTypeOf(ks), MapEntriesOf(ks)),
      ClassOf(ks, Len(ks) % 2 = 0),
      KidOffsets(ks, Len(Header("%", Len(ks)))))

(***************************************************************************)
(* The records of the model.                                                *)
(***************************************************************************)
MaxElems == 2
MaxPairs == 2
MaxCalls == 2

OK == <<"O", "K">>
Hi == <<"h", "i">>

SimpleOK == Line("+", OK, Str(OK))
SimpleA == Line("+", <<"a">>, Str(<<"a">>))
BulkHi == Blob("$", <<"2">>, Hi, Str(Hi))
Int7 == Line(":", <<"7">>, Int64(7))
True == Line("#", <<"t">>, Bool(TRUE))
Null == Rec(<<"_">> \o CRLF, Nil, "wf", {})
ErrE == Line("-", <<"e">>, ErrorVal(<<"e">>))
Float15 == Line(",", <<"1", ".", "5">>, Float64(15, 1))
NullBulk == Line("$", <<"-", "1">>, Nil)
EmptyBulk == Blob("$", <<"0">>, <<>>, Str(<<>>))
NullArray == Line("*", <<"-", "1">>, Nil)
\* verbatim-string with length 0: nothing follows the header in the grammar
EmptyVerbatim == Line("=", <<"0">>, Str(<<>>))

\* one record of every tag and form of the grammar
Scalars ==
  { SimpleOK, SimpleA, Line("+", <<>>, Str(<<>>)),
    ErrE,
    Int7, Line(":", <<"-", "1", "2">>, Int64(-12)),
    Float15,
    BulkHi, EmptyBulk, NullBulk, Blob("$", <<"2">>, CRLF, Str(CRLF)),
    Blob("=", <<"2">>, Hi, Str(Hi)), EmptyVerbatim,
    Line("=", <<"-", "1">>, Nil),
    Blob("!", <<"2">>, Hi, ErrorVal(Hi)),
    True, Line("#", <<"f">>, Bool(FALSE)),
    Null, NullArray }

SeqsOf(S, n) == UNION {[1..k -> S] : k \in 0..n}

ElemRecs == {SimpleOK, BulkHi, True, Null}

Arrays == {ArrayRec(ks) : ks \in SeqsOf(ElemRecs, MaxElems)} \cup {ArrayRec(<<s>>) : s \in Scalars}

\* keys of every kind: text, integer, float, boolean, error, Null
KeyRecs == {SimpleA, BulkHi, Int7, Float15, True, ErrE, Null, NullBulk}

\* the value of the i-th pair of a map: the integer i
ValueAt(i) == Line(":", Itoa(i), Int64(i))

\* the map with the given keys, the i-th with value i
MapOf(keys) ==
  MapRec([i \in 1..(2 * Len(keys)) |-> IF i % 2 = 1 THEN keys[(i + 1) \div 2] ELSE ValueAt(i \div 2)])

KeySeqs == SeqsOf(KeyRecs, MaxPairs)

Maps == {MapOf(keys) : keys \in KeySeqs}

\* the keys a record of Maps was made of
KeysOf == [r \in Maps |-> CHOOSE keys \in KeySeqs : MapOf(keys) = r]

Inner == {ArrayRec(<<>>), ArrayRec(<<SimpleOK>>), ArrayRec(<<True>>), ArrayRec(<<Null>>),
          MapRec(<<>>), MapRec(<<SimpleA, BulkHi>>), MapRec(<<Int7, True>>), MapRec(<<Null, Int7>>)}

Nested ==
  {ArrayRec(<<c>>) : c \in Inner} \cup {ArrayRec(<<SimpleOK, c>>) : c \in Inner}
    \cup {MapRec(<<SimpleA, c>>) : c \in Inner}
    \cup {ArrayRec(<<ArrayRec(<<c>>)>>) : c \in Inner}

WellFormed == Scalars \cup Arrays \cup Maps \cup Nested

\* records with a tag byte outside the grammar
BadTag(tag, text) == Rec(<<tag>> \o text \o CRLF, Nil, "badtag", {})

BadTags == {BadTag("&", <<>>), BadTag("x", <<>>), BadTag("~", <<"0">>), BadTag("1", <<>>)}

Amp == BadTag("&", <<>>)

BadNested ==
  {ArrayRec(<<b>>) : b \in BadTags}
    \cup { ArrayRec(<<SimpleOK, Amp>>), ArrayRec(<<Amp, SimpleOK>>),
           ArrayRec(<<ArrayRec(<<Amp>>)>>), ArrayRec(<<ArrayRec(<<ArrayRec(<<True, Amp>>)>>)>>),
           MapRec(<<Amp, Int7>>), MapRec(<<SimpleA, Amp>>), MapRec(<<Null, Amp>>),
           MapRec(<<SimpleA, Int7, Int7, Amp>>),
           MapRec(<<SimpleA, ArrayRec(<<Amp>>)>>), ArrayRec(<<MapRec(<<SimpleA, Amp>>)>>),
           MapRec(<<SimpleA, MapRec(<<Amp, True>>)>>) }

\* length-prefixed records whose payload is longer than the declared length
Mismatch(tag, length, payload) ==
  Rec(<<tag>> \o length \o CRLF \o payload \o CRLF, Nil, "mismatch", {})

Foobar == <<"f", "o", "o", "b", "a", "r">>

Mismatches ==
  {Mismatch(tag, <<"3">>, Foobar) : tag \in {"$", "=", "!"}}
    \cup {Mismatch(tag, <<"1">>, Hi) : tag \in {"$", "=", "!"}}
    \cup {Mismatch(tag, <<"0">>, Hi) : tag \in {"$", "=", "!"}}

\* a map of declared size -1
NullMap == Rec(<<"%", "-", "1">> \o CRLF, Nil, "nullmap", {})

\* a length- or count-prefixed record whose complete header line is not a
\* base-10 integer
BadHeader(tag, text) == Rec(<<tag>> \o text \o CRLF, Nil, "badheader", {})

\* header texts that are no integers: a letter, nothing, digits then a letter,
\* a decimal fraction, a lone sign
BadHeaderTexts == {<<"x">>, <<>>, <<"1", "x">>, <<"1", ".", "5">>, <<"-">>}

BadHeaders == {BadHeader(tag, text) : tag \in {"$", "=", "*", "%", "!"}, text \in BadHeaderTexts}

\* maps of declared size 0 to 3, with that many children
MapHeads ==
  {MapRec(ks) : ks \in {<<>>, <<SimpleA>>, <<Int7>>, <<Null>>, <<SimpleA, Int7>>,
                         <<SimpleA, Int7, BulkHi>>, <<Int7, True, SimpleA>>}}

\* no byte at all
Nothing == Rec(<<>>, Nil, "wf", {})

Trailers == {Nothing, SimpleOK, Int7, ArrayRec(<<True>>)}

\* a map and, after its last child, the bytes of the next record
Stream(a, b) == Rec(a.wire \o b.wire, a.val, "stream", a.kids)

Streams == {Stream(a, b) : a \in MapHeads, b \in Trailers}

\* the map a record of Streams starts with
HeadOf == [r \in Streams |-> CHOOSE a \in MapHeads : \E b \in Trailers : Stream(a, b) = r]

\* Maps in which a key is an array or a map: well formed by the grammar, in a
\* class of their own.
CompositeKeys == {ArrayRec(<<>>), ArrayRec(<<SimpleA>>), MapRec(<<>>), MapRec(<<SimpleA, Int7>>)}

CompositeKeyMap(ks) == [MapRec(ks) EXCEPT !.class = "compositekey"]

CompositeKeyMaps ==
  {CompositeKeyMap(<<k, Int7>>) : k \in CompositeKeys}
    \cup {CompositeKeyMap(<<SimpleA, True, k, BulkHi>>) : k \in CompositeKeys}

\* A header that declares the length or count -n, with the bytes rest after it.
Negative(tag, n, rest) == Rec(<<tag, "-">> \o Itoa(n) \o CRLF \o rest, Nil, "negative", {})

Negatives ==
  {Negative(tag, n, rest) : tag \in {"$", "=", "*", "!"}, n \in {2, 3}, rest \in {<<>>, <<"x">>}}
    \cup {Negative("!", 1, rest) : rest \in {<<>>, <<"x">>, <<"h", "i", CR, LF>>}}

\* the empty verbatim string in the form of TestDecodeEmptyVerbatimString
EmptyVerbatimString == Blob("=", <<"0">>, <<>>, Str(<<>>))

\* A source that holds the records rs one after the other.
Sequence(rs) == Rec(Concat([i \in 1..Len(rs) |-> rs[i].wire]), rs[1].val, "sequence", {})

Parts == {True, Null, EmptyBulk, EmptyVerbatimString, SimpleOK, BulkHi, ArrayRec(<<True>>)}

PartSeqs == {<<a>> : a \in Parts} \cup {<<a, b>> : a \in Parts, b \in Parts}

Sequences == {Sequence(rs) : rs \in PartSeqs}

\* the records a source of Sequences holds
PartsOf == [r \in Sequences |-> CHOOSE rs \in PartSeqs : Sequence(rs) = r]

\* the number of bytes of the first i records of rs
Offset(rs, i) == Len(Concat([j \in 1..i |-> rs[j].wire]))

\* The inputs of TestReadLineCRLF, with shorter words, and some more.
LineInput(wire) == Rec(wire, Nil, "line", {})

LineInputs ==
  {LineInput(w) : w \in {Hi \o CRLF, Hi \o <<LF>>, Hi, CRLF, Hi \o CRLF \o Hi \o CRLF,
                         Hi \o <<CR>>, Hi \o CRLF \o Hi, <<>>, <<LF>>, <<CR>>,
                         <<LF>> \o CRLF, <<CR>> \o CRLF, Hi \o <<LF>> \o Hi \o CRLF,
                         <<"h", CR, "i">> \o CRLF}}

Records ==
  WellFormed \cup BadTags \cup BadNested \cup Mismatches \cup {NullMap} \cup BadHeaders
    \cup Streams \cup CompositeKeyMaps \cup Negatives \cup Sequences

(***************************************************************************)
(* resp3/encoder.go.  The inputs of Encode are Go values, records of the    *)
(* same shape as the decoded ones: e holds the elements of a slice, m the   *)
(* entries of a map or, in declaration order, the fields of a struct (k the *)
(* field's name), n the milliseconds of a time.Time.                        *)
(***************************************************************************)
GoInt(n) == Val("int", <<>>, n, 0, <<>>, <<>>)

SliceOf(t, e) == Val(t, <<>>, 0, 0, e, <<>>)

Time(ms) == Val("time.Time", <<>>, ms, 0, <<>>, <<>>)

Struct(fields) == Val("struct", <<>>, 0, 0, <<>>, fields)

\* values of types that no case of Encode matches
Chan == Val("chan int", <<>>, 0, 0, <<>>, <<>>)
Ptr == Val("*int", <<>>, 0, 0, <<>>, <<>>)

IntegerTypes ==
  {"int", "int8", "int16", "int32", "int64", "uint", "uint8", "uint16", "uint32", "uint64"}

FloatTypes == {"float32", "float64"}

\* what Encode returns: the wire text, the error, and the type the error names
EncodeResult(wire, err, type) == [wire |-> wire, err |-> err, type |-> type]

Encoded(wire) == EncodeResult(wire, NoErr, "")

\* fmt.Errorf("unsupported type: %v", reflect.TypeOf(value))
ErrUnsupportedType == "unsupported type"

DigitChar(k) == CHOOSE c \in Digits : DigitVal(c) = k

RECURSIVE FormatUint(_)
FormatUint(n) ==
  IF n < 10 THEN <<DigitChar(n)>> ELSE FormatUint(n \div 10) \o <<DigitChar(n % 10)>>

\* strconv.FormatInt(n, 10) and fmt.Sprintf("%d", n)
FormatInt(n) == IF n < 0 THEN <<"-">> \o FormatUint(-n) ELSE FormatUint(n)

RECURSIVE Pow10(_)
Pow10(k) == IF k = 0 THEN 1 ELSE 10 * Pow10(k - 1)

\* fmt.Sprintf("%f", x) for x = n * 10^-d with d <= 6: six fraction digits
FormatFloat(n, d) ==
  LET mag == (IF n < 0 THEN -n ELSE n) * Pow10(6 - d)
      ip == mag \div Pow10(6)
      fp == mag % Pow10(6)
  IN  (IF n < 0 THEN <<"-">> ELSE <<>>) \o FormatUint(ip) \o <<".">>
        \o Tail(FormatUint(Pow10(6) + fp))

\* "+" + v + "\r\n"
SimpleString(s) == <<"+">> \o s \o CRLF

\* "$" + strconv.Itoa(len(v)) + "\r\n" + v + "\r\n"
BulkString(s) == <<"$">> \o Itoa(Len(s)) \o CRLF \o s \o CRLF

\* EncodeString with the threshold "less than 16"
EncodeStringBelow16(v) ==
  IF Len(v.s) < 16 THEN Encoded(SimpleString(v.s)) ELSE Encoded(BulkString(v.s))

\* case string
EncodeString(v) ==
  IF Len(v.s) <= 16 THEN Encoded(SimpleString(v.s)) ELSE Encoded(BulkString(v.s))

\* case int, int8, ..., uint64
EncodeInteger(v) == Encoded(<<":">> \o FormatInt(v.n) \o CRLF)

\* case float32, float64
EncodeFloat(v) == Encoded(<<",">> \o FormatFloat(v.n, v.d) \o CRLF)

\* case bool
EncodeBool(v) == Encoded(IF v.n = 1 THEN <<"#", "t">> \o CRLF ELSE <<"#", "f">> \o CRLF)

\* case nil
EncodeNil == Encoded(<<"_">> \o CRLF)

\* case error
EncodeError(v) == Encoded(<<"-">> \o v.s \o CRLF)

\* case time.Time
EncodeTime(v) == Encoded(<<":">> \o FormatInt(v.n) \o CRLF)

\* default, for a value that is no struct
EncodeUnsupported(v) == EncodeResult(<<>>, ErrUnsupportedType, v.t)

\* field.IsExported(): the name starts with an upper-case letter
UpperCase ==
  {"A", "B", "C", "D", "E", "F", "G", "H", "I", "J", "K", "L", "M",
   "N", "O", "P", "Q", "R", "S", "T", "U", "V", "W", "X", "Y", "Z"}

IsExported(name) == Head(name) \in UpperCase

\* Loop going on after an element that failed to encode
RECURSIVE LoopSkipErrors(_, _)
LoopSkipErrors(resp, parts) ==
  IF parts = <<>> THEN {Encoded(resp)}
  ELSE UNION { IF r.err # NoErr THEN LoopSkipErrors(resp, Tail(parts))
               ELSE LoopSkipErrors(resp \o r.wire, Tail(parts)) : r \in Head(parts) }

\* The loops of Encode: resp grows by the encoding of each part in turn, and
\* the first part that fails ends the call with "" and its error.  parts[i]
\* holds the results the i-th part can have.
RECURSIVE Loop(_, _)
Loop(resp, parts) ==
  IF parts = <<>> THEN {Encoded(resp)}
  ELSE UNION { IF r.err # NoErr THEN {EncodeResult(<<>>, r.err, r.type)}
               ELSE Loop(resp \o r.wire, Tail(parts)) : r \in Head(parts) }

RECURSIVE Encode(_)

\* EncodeInterfaceSlice with a Bulk String for every string element of more
\* than 12 bytes
EncodeInterfaceSliceBulkAbove12(v) ==
  Loop(Header("*", Len(v.e)),
       [i \in 1..Len(v.e) |->
          IF v.e[i].t = "string" /\ Len(v.e[i].s) <= 12
            THEN {Encoded(SimpleString(v.e[i].s))}
          ELSE IF v.e[i].t = "string" THEN {Encoded(BulkString(v.e[i].s))}
          ELSE Encode(v.e[i])])

\* case []interface{}
EncodeInterfaceSlice(v) ==
  Loop(Header("*", Len(v.e)),
       [i \in 1..Len(v.e) |->
          IF v.e[i].t = "string" /\ Len(v.e[i].s) <= 12
            THEN {Encoded(SimpleString(v.e[i].s))}
            ELSE Encode(v.e[i])])

\* EncodeStringSlice with every element encoded by the rule for a string
EncodeStringSliceByRule(v) ==
  Loop(Header("*", Len(v.e)), [i \in 1..Len(v.e) |-> Encode(v.e[i])])

\* case []string
EncodeStringSlice(v) ==
  Loop(Header("*", Len(v.e)), [i \in 1..Len(v.e) |-> {Encoded(SimpleString(v.e[i].s))}])

\* case []int, ..., []uint64; case []bool; case []float32, []float64
EncodeSlice(v) ==
  Loop(Header("*", Len(v.e)), [i \in 1..Len(v.e) |-> Encode(v.e[i])])

\* case map[string]interface{}.  The order in which range visits the entries
\* of a map is not specified: any order p can be the one of a call.
EncodeStringMap(v) ==
  UNION { Loop(Header("%", Len(v.m) * 2),
               [i \in 1..(2 * Len(v.m)) |->
                  IF i % 2 = 1 THEN {Encoded(SimpleString(v.m[p[(i + 1) \div 2]].k.s))}
                  ELSE Encode(v.m[p[i \div 2]].v)])
          : p \in Permutations(1..Len(v.m)) }

\* case map[interface{}]interface{}
EncodeInterfaceMap(v) ==
  UNION { Loop(Header("%", Len(v.m) * 2),
               [i \in 1..(2 * Len(v.m)) |->
                  IF i % 2 = 0 THEN Encode(v.m[p[i \div 2]].v)
                  ELSE IF v.m[p[(i + 1) \div 2]].k.t = "string"
                    THEN {Encoded(SimpleString(v.m[p[(i + 1) \div 2]].k.s))}
                  ELSE Encode(v.m[p[(i + 1) \div 2]].k)])
          : p \in Permutations(1..Len(v.m)) }

\* encodeStruct: the header counts every field, the loop skips the fields
\* that are not exported
encodeStruct(s) ==
  LET exported == SelectSeq(s.m, LAMBDA field : IsExported(field.k.s))
  IN  Loop(Header("%", Len(s.m) * 2),
           [i \in 1..(2 * Len(exported)) |->
              IF i % 2 = 1 THEN {Encoded(SimpleString(exported[(i + 1) \div 2].k.s))}
              ELSE Encode(exported[i \div 2].v)])

\* Encode: the results a call can return
Encode(value) ==
  CASE value.t = "string" -> {EncodeString(value)}
    [] value.t \in IntegerTypes -> {EncodeInteger(value)}
    [] value.t \in FloatTypes -> {EncodeFloat(value)}
    [] value.t = "bool" -> {EncodeBool(value)}
    [] value.t = "nil" -> {EncodeNil}
    [] value.t = "error" -> {EncodeError(value)}
    [] value.t = "[]interface{}" -> EncodeInterfaceSlice(value)
    [] value.t = "[]string" -> EncodeStringSlice(value)
    [] value.t \in {"[]int", "[]bool", "[]float64"} -> EncodeSlice(value)
    [] value.t = "map[string]interface{}" -> EncodeStringMap(value)
    [] value.t = "map[interface{}]interface{}" -> EncodeInterfaceMap(value)
    [] value.t = "time.Time" -> {EncodeTime(value)}
    [] value.t = "struct" -> encodeStruct(value)
    [] OTHER -> {EncodeUnsupported(value)}

(***************************************************************************)
(* The inputs of Encode in the model.                                       *)
(***************************************************************************)
MaxText == 18
MaxFields == 2
MaxEncodes == 2

\* a text of n bytes
Text(n) == [i \in 1..n |-> "a"]

\* texts with a line break in them
Multiline == <<"a", CR, LF, "b">>

Texts == {Text(n) : n \in 0..MaxText} \cup {Hi, OK, Multiline, <<"a", LF, "b">>, CRLF}

IntegerInputs == {Int64(-12), Int64(0), Int64(7), GoInt(123), Val("uint8", <<>>, 200, 0, <<>>, <<>>)}

Floats == {Float64(314, 2), Float64(-15, 1), Val("float32", <<>>, 7, 0, <<>>, <<>>)}

Errors == {ErrorVal(<<"e">>), ErrorVal(<<>>), ErrorVal(Multiline)}

ScalarInputs ==
  {Str(s) : s \in Texts} \cup IntegerInputs \cup Floats \cup Errors
    \cup {Bool(TRUE), Bool(FALSE), Nil, Time(1620832335), Chan, Ptr}

ElemValues ==
  {Str(Text(1)), Str(Text(12)), Str(Text(13)), Str(Text(16)), Str(Text(17)),
   GoInt(123), Bool(TRUE), Nil, Chan}

InterfaceSlices == {Slice(e) : e \in SeqsOf(ElemValues, MaxElems)}

TypedSlices ==
  {SliceOf("[]string", e) : e \in SeqsOf({Str(Text(1)), Str(Text(16)), Str(Text(17))}, MaxElems)}
    \cup {SliceOf("[]int", e) : e \in SeqsOf({GoInt(1), GoInt(-23)}, MaxElems)}
    \cup {SliceOf("[]bool", e) : e \in SeqsOf({Bool(TRUE), Bool(FALSE)}, MaxElems)}
    \cup {SliceOf("[]float64", e) : e \in SeqsOf({Float64(123, 2), Float64(-5, 0)}, MaxElems)}

Entry(k, v) == [k |-> k, v |-> v]

\* entries with different keys, as in a Go map, or fields with different names
DistinctKeys(m) == \A i, j \in 1..Len(m) : i # j => m[i].k # m[j].k

EntriesOf(S, n) == {m \in SeqsOf(S, n) : DistinctKeys(m)}

StringMaps ==
  {MapVal("map[string]interface{}", m) :
     m \in EntriesOf({Entry(Str(k), v) : k \in {<<"a">>, <<"b">>}, v \in {GoInt(1), GoInt(2), Chan}},
                     MaxPairs)}

InterfaceMaps ==
  {MapVal("map[interface{}]interface{}", m) :
     m \in EntriesOf({Entry(k, v) : k \in {Str(<<"a">>), GoInt(2), Float64(314, 2), Ptr},
                                    v \in {GoInt(1), Str(<<"b">>), Chan}},
                     MaxPairs)}

Name == <<"N", "a", "m", "e">>
Age == <<"A", "g", "e">>

Fields ==
  {Entry(Str(Name), Str(Hi)), Entry(Str(Age), GoInt(25)), Entry(Str(<<"a", "g", "e">>), GoInt(3)),
   Entry(Str(<<"C", "h">>), Chan), Entry(Str(<<"c", "h">>), Chan),
   Entry(Str(<<"P", "o", "s", "t">>), Str(Text(17)))}

Structs == {Struct(fs) : fs \in EntriesOf(Fields, MaxFields)}

\* a channel one to four levels down
Deep ==
  { Slice(<<GoInt(1), Slice(<<Chan>>)>>),
    Slice(<<MapVal("map[string]interface{}", <<Entry(Str(<<"a">>), Struct(<<Entry(Str(<<"C", "h">>), Chan)>>))>>)>>),
    Struct(<<Entry(Str(Name), Slice(<<Slice(<<Slice(<<Ptr>>)>>)>>))>>),
    MapVal("map[interface{}]interface{}",
           <<Entry(GoInt(2), MapVal("map[string]interface{}", <<Entry(Str(<<"a">>), Ptr)>>))>>),
    Slice(<<Struct(<<Entry(Str(<<"c", "h">>), Chan)>>)>>),
    Slice(<<SliceOf("[]string", <<Str(Text(13))>>), MapVal("map[int64]interface{}", <<>>)>>) }

Inputs ==
  ScalarInputs \cup InterfaceSlices \cup TypedSlices \cup StringMaps \cup InterfaceMaps
    \cup Structs \cup Deep

(***************************************************************************)
(* A caller decoding one record that a peer writes to the source of the     *)
(* caller's bufio.Reader.                                                   *)
(***************************************************************************)
\* the buffer of bufio.NewReader; every record of Records is shorter, so a
\* whole record fits in the reader's buffer
defaultBufSize == 4096

VARIABLES
  rec,    \* the record the peer writes
  sent,   \* how many of its bytes the source has received
  src,    \* bytes in the source, not yet read by the bufio.Reader
  buf,    \* bytes buffered in the bufio.Reader, not yet consumed
  size,   \* capacity of the bufio.Reader's buffer
  calls,  \* the Decode calls so far: where each started and what it returned
  value,    \* the input of Encode
  encoded,  \* what the Encode calls on value returned
  decoded   \* what Decode returned for the text Encode returned

decVars == <<rec, sent, src, buf, size, calls>>

encVars == <<value, encoded, decoded>>

vars == <<decVars, encVars>>

\* how many bytes of the record the reader has consumed
Consumed == sent - Len(src) - Len(buf)

Init ==
  /\ rec \in Records
  /\ sent = 0
  /\ src = <<>>
  /\ buf = <<>>
  /\ size = defaultBufSize
  /\ calls = <<>>
  /\ value = Nil
  /\ encoded = <<>>
  /\ decoded = <<>>

\* The peer writes the next k bytes of the record: any number of them before
\* the first Decode call, all that are missing after it.
Send(k) ==
  /\ k \in 1..(Len(rec.wire) - sent)
  /\ IF calls = <<>> THEN TRUE ELSE k = Len(rec.wire) - sent
  /\ src' = src \o SubSeq(rec.wire, sent + 1, sent + k)
  /\ sent' = sent + k
  /\ UNCHANGED <<rec, buf, size, calls, encVars>>

\* The caller calls Decode on its reader.
Call ==
  /\ Len(calls) < MaxCalls
  /\ IF calls = <<>> THEN TRUE ELSE calls[Len(calls)].err # Panic
  /\ \E r \in {Decode(Reader(buf, src, size))} :
       /\ calls' = Append(calls, [at |-> Consumed, sent |-> sent,
                                  val |-> r.val, err |-> r.err,
                                  to |-> sent - Len(r.rd.src) - Len(r.rd.buf)])
       /\ buf' = r.rd.buf
       /\ src' = r.rd.src
  /\ UNCHANGED <<rec, sent, size, encVars>>

\* After a partial result the caller starts over: a new reader over all the
\* bytes received so far, from the first byte of the record.
Retry ==
  /\ calls # <<>>
  /\ calls[Len(calls)].err = ErrUnexpectedEOF
  /\ Consumed > 0
  /\ buf' = <<>>
  /\ src' = Take(rec.wire, sent)
  /\ UNCHANGED <<rec, sent, size, calls, encVars>>

Next == (\E k \in 1..Len(rec.wire) : Send(k)) \/ Call \/ Retry

Spec == Init /\ [][Next]_vars

(***************************************************************************)
(* A caller encoding one value, once or again, and decoding the text that   *)
(* Encode returned from a new reader.                                       *)
(***************************************************************************)
InitEncode ==
  /\ value \in Inputs
  /\ encoded = <<>>
  /\ decoded = <<>>
  /\ rec = Null
  /\ sent = 0
  /\ src = <<>>
  /\ buf = <<>>
  /\ size = defaultBufSize
  /\ calls = <<>>

\* The caller calls Encode on the value.
EncodeCall ==
  /\ Len(encoded) < MaxEncodes
  /\ \E r \in Encode(value) : encoded' = Append(encoded, r)
  /\ UNCHANGED <<value, decoded, decVars>>

\* The caller calls Decode on a new reader over the text of the last Encode.
DecodeEncoded ==
  /\ encoded # <<>>
  /\ decoded = <<>>
  /\ encoded[Len(encoded)].err = NoErr
  /\ \E r \in {Decode(Reader(<<>>, encoded[Len(encoded)].wire, size))} :
       decoded' = <<[wire |-> encoded[Len(encoded)].wire, val |-> r.val, err |-> r.err,
                     left |-> Len(r.rd.buf) + Len(r.rd.src)]>>
  /\ UNCHANGED <<value, encoded, decVars>>

NextEncode == EncodeCall \/ DecodeEncoded

SpecEncode == InitEncode /\ [][NextEncode]_vars

(***************************************************************************)
(* readLineCRLF alone, as TestReadLineCRLF calls it: on a reader over the   *)
(* input, once and again for the next line.                                 *)
(***************************************************************************)
InitLine ==
  /\ rec \in LineInputs
  /\ sent = 0
  /\ src = <<>>
  /\ buf = <<>>
  /\ size = defaultBufSize
  /\ calls = <<>>
  /\ value = Nil
  /\ encoded = <<>>
  /\ decoded = <<>>

ReadLine ==
  /\ Len(calls) < MaxCalls
  /\ \E r \in {readLineCRLF(Reader(buf, src, size))} :
       /\ calls' = Append(calls, [at |-> Consumed, sent |-> sent, val |-> Str(r.line),
                                  err |-> r.err,
                                  to |-> sent - Len(r.rd.src) - Len(r.rd.buf)])
       /\ buf' = r.rd.buf
       /\ src' = r.rd.src
  /\ UNCHANGED <<rec, sent, size, encVars>>

NextLine == (\E k \in 1..Len(rec.wire) : Send(k)) \/ ReadLine

SpecLine == InitLine /\ [][NextLine]_vars

(***************************************************************************)
(* Decode on a reader with a small buffer, as bufio.NewReaderSize gives it  *)
(* (16 bytes is the least it gives), over records that are longer than the  *)
(* buffer and records that fit.                                             *)
(***************************************************************************)
SmallBufSize == 16

BulkOf(n) == Blob("$", Itoa(n), Text(n), Str(Text(n)))

SmallBufRecords ==
  { BulkOf(SmallBufSize + 4),
    BulkOf(SmallBufSize - 4),
    BulkOf(SmallBufSize - 10),
    Line("+", Text(SmallBufSize + 4), Str(Text(SmallBufSize + 4))),
    \* header and first child, header and first pair fill the buffer exactly
    ArrayRec(<<BulkOf(SmallBufSize - 10), SimpleOK>>),
    MapRec(<<SimpleA, BulkOf(SmallBufSize - 14), SimpleOK, Int7>>),
    \* header and first key fill the buffer exactly
    MapRec(<<BulkOf(SmallBufSize - 10), Int7>>),
    \* longer than the buffer, the buffer ending inside a child
    ArrayRec(<<SimpleOK, SimpleOK, SimpleOK, SimpleOK>>),
    ArrayRec(<<SimpleOK, True>>) }

InitSmall ==
  /\ rec \in SmallBufRecords
  /\ sent = 0
  /\ src = <<>>
  /\ buf = <<>>
  /\ size = SmallBufSize
  /\ calls = <<>>
  /\ value = Nil
  /\ encoded = <<>>
  /\ decoded = <<>>

SpecSmall == InitSmall /\ [][Next]_vars

(***************************************************************************)
(* Decode on a reader over an open source, a connection whose peer has sent *)
(* the first bytes of the record and has not closed.                        *)
(***************************************************************************)
CallOpen ==
  /\ Len(calls) < MaxCalls
  /\ (IF calls = <<>> THEN TRUE ELSE calls[Len(calls)].err \notin {Panic, Waiting})
  /\ \E r \in {Decode(OpenReader(buf, src, size))} :
       /\ calls' = Append(calls, [at |-> Consumed, sent |-> sent, val |-> r.val,
                                  err |-> IF r.rd.blocked THEN Waiting ELSE r.err,
                                  to |-> sent - Len(r.rd.src) - Len(r.rd.buf)])
       /\ buf' = r.rd.buf
       /\ src' = r.rd.src
  /\ UNCHANGED <<rec, sent, size, encVars>>

NextOpen == (\E k \in 1..Len(rec.wire) : Send(k)) \/ CallOpen \/ Retry

SpecOpen == Init /\ [][NextOpen]_vars

\* the outcome of a call, in the words of the contract
Status(c) ==
  IF c.err = NoErr THEN "ok"
  ELSE IF c.err = ErrUnexpectedEOF THEN "partial"
  ELSE IF c.err = EOF THEN "end-of-input"
  ELSE IF c.err = Panic THEN "crash"
  ELSE IF c.err = Waiting THEN "waiting"
  ELSE "malformed"

TypeOK ==
  /\ rec \in Records
  /\ sent \in 0..Len(rec.wire)
  /\ Len(calls) <= MaxCalls
  /\ Consumed >= 0

\* a call on a reader that holds the whole record, from its first byte
Whole(c) == c.at = 0 /\ c.sent = Len(rec.wire)

\* a call on a reader that holds a proper prefix of the record, at least its
\* tag byte, from its first byte
Prefix(c) == c.at = 0 /\ 0 < c.sent /\ c.sent < Len(rec.wire)

Calls == {calls[i] : i \in 1..Len(calls)}

\* Every whole well-formed record decodes to its value and is consumed.
WholeDecodes ==
  \A c \in Calls : rec.class = "wf" /\ Whole(c) => c.err = NoErr /\ c.val = rec.val /\ c.to = c.sent

(***************************************************************************)
(* C1.  Decode on a proper prefix of a well-formed record that holds at     *)
(* least the tag byte returns partial (io.ErrUnexpectedEOF).                *)
(***************************************************************************)
C1_PrefixIsPartial ==
  \A c \in Calls : rec.class = "wf" /\ Prefix(c) => c.err = ErrUnexpectedEOF

C1_Witness ==
  \E c \in Calls : rec.class = "wf" /\ Prefix(c) /\ c.err = ErrUnexpectedEOF

(***************************************************************************)
(* C2.  Decode with no byte available returns end-of-input (io.EOF); when   *)
(* the source ends where a child element of an array or map should start,   *)
(* the outer Decode returns partial, not end-of-input.                      *)
(***************************************************************************)
C2_EndOfInput ==
  \A c \in Calls :
    /\ c.at = c.sent => c.err = EOF
    /\ rec.class = "wf" /\ Prefix(c) /\ c.sent \in rec.kids => c.err = ErrUnexpectedEOF

C2_Witness ==
  /\ Len(calls) = 2
  /\ rec.class = "wf" /\ Prefix(calls[1]) /\ calls[1].sent \in rec.kids
  /\ calls[1].err = ErrUnexpectedEOF
  /\ calls[2].at = calls[2].sent /\ calls[2].err = EOF

(***************************************************************************)
(* C3.  For a well-formed record split in two non-empty parts, Decode on a  *)
(* source holding the first part reports partial, and Decode on a source    *)
(* holding both parts returns ok with the value of the record.              *)
(***************************************************************************)
C3_SplitThenWhole ==
  \A c \in Calls :
    rec.class = "wf" =>
      /\ Prefix(c) => Status(c) = "partial"
      /\ Whole(c) => Status(c) = "ok" /\ c.val = rec.val

C5_UnsupportedTag ==
  \A c \in Calls :
    rec.class = "badtag" /\ Whole(c) =>
      /\ c.err = ErrUnsupportedRespDataType
      /\ Status(c) = "malformed"
      /\ c.err \notin {ErrUnexpectedEOF, EOF}

C5_Witness ==
  \E c \in Calls :
    /\ rec.class = "badtag" /\ Whole(c) /\ c.err = ErrUnsupportedRespDataType
    /\ \E o \in rec.kids : o + 4 \in rec.kids

(***************************************************************************)
(* C6.  A map is returned text-keyed iff every key that is not Null is      *)
(* text, else integer-keyed iff every such key is an integer, else          *)
(* mixed-key; with no surviving pair it is the empty text-keyed map; the    *)
(* type does not depend on the order of the keys.                           *)
(***************************************************************************)
C6_KeyType ==
  \A c \in Calls :
    rec \in Maps /\ Whole(c) =>
      LET keys == KeysOf[rec]
          nonNull == {keys[i].val : i \in 1..Len(keys)} \ {Nil}
          allText == \A k \in nonNull : k.t = "string"
          allInt == \A k \in nonNull : k.t = "int64"
      IN  /\ c.err = NoErr
          /\ c.val.t = "map[string]interface{}" <=> allText
          /\ c.val.t = "map[int64]interface{}" <=> ~allText /\ allInt
          /\ c.val.t = "map[interface{}]interface{}" <=> ~allText /\ ~allInt
          /\ nonNull = {} => c.val = MapVal("map[string]interface{}", <<>>)
          /\ \A p \in Permutations(1..Len(keys)) :
               Decode(Reader(<<>>, MapOf([i \in 1..Len(keys) |-> keys[p[i]]]).wire, size)).val.t
                 = c.val.t

C6_Witness ==
  \E c \in Calls :
    /\ rec = MapOf(<<Int7, SimpleA>>) /\ Whole(c)
    /\ c.val.t = "map[interface{}]interface{}"

(***************************************************************************)
(* C7.  A pair whose key decodes to Null is absent from the returned map,   *)
(* the value after the Null key is consumed, and every other pair is        *)
(* returned with its own value.                                             *)
(***************************************************************************)
C7_NullKeyDropped ==
  \A c \in Calls :
    rec \in Maps /\ Whole(c) /\ (\E i \in 1..Len(KeysOf[rec]) : KeysOf[rec][i].val = Nil) =>
      LET keys == KeysOf[rec]
          entries == {c.val.m[i] : i \in 1..Len(c.val.m)}
      IN  /\ c.err = NoErr
          /\ c.to = Len(rec.wire)
          /\ \A e \in entries : e.k # Nil
          /\ \A e \in entries : \E i \in 1..Len(keys) : keys[i].val = e.k /\ e.v = Int64(i)
          /\ \A i \in 1..Len(keys) : keys[i].val # Nil => \E e \in entries : e.k = keys[i].val

C7_Witness ==
  \E c \in Calls :
    /\ rec = MapOf(<<Null, SimpleA>>) /\ Whole(c)
    /\ c.val.m = <<[k |-> Str(<<"a">>), v |-> Int64(2)]>>

(***************************************************************************)
(* C8.  A bulk string, verbatim string or blob error whose payload does not *)
(* end where the declared length says (the two bytes there are not CRLF) is *)
(* reported malformed: neither ok with a truncated payload nor partial.     *)
(***************************************************************************)
C8_LengthMismatchIsMalformed ==
  \A c \in Calls : rec.class = "mismatch" /\ Whole(c) => Status(c) = "malformed"

(***************************************************************************)
(* C9.  Null and empty are told apart: "$-1" and "*-1" decode to Null,      *)
(* "$0" and "*0" to the empty string and the empty sequence, and Null is    *)
(* neither of these.                                                        *)
(***************************************************************************)
C9_NullIsNotEmpty ==
  \A c \in Calls :
    Whole(c) =>
      /\ rec \in {NullBulk, NullArray} => c.err = NoErr /\ c.val = Nil
      /\ rec = EmptyBulk => c.err = NoErr /\ c.val = Str(<<>>) /\ c.val # Nil
      /\ rec = ArrayRec(<<>>) => c.err = NoErr /\ c.val = Slice(<<>>) /\ c.val # Nil

C9_Witness ==
  \E c \in Calls : rec = NullArray /\ Whole(c) /\ c.err = NoErr /\ c.val = Nil

(***************************************************************************)
(* C10.  A map of declared size -1 decodes to a null map, a result that is  *)
(* not the result of decoding the empty map "%0".                           *)
(***************************************************************************)
C10_NullMapIsNotEmptyMap ==
  \A c \in Calls :
    rec = NullMap /\ Whole(c) =>
      /\ c.err = NoErr
      /\ c.val # Decode(Reader(<<>>, MapRec(<<>>).wire, size)).val

(***************************************************************************)
(* C11.  For each of the tags $, =, *, % and !, a complete header line whose *)
(* text is not a base-10 integer makes Decode return malformed: not ok, not *)
(* partial, not end-of-input.                                               *)
(***************************************************************************)
C11_BadHeaderIsMalformed ==
  \A c \in Calls : rec.class = "badheader" /\ Whole(c) => Status(c) = "malformed"

(***************************************************************************)
(* The encoder claims are checked under SpecEncode.                         *)
(***************************************************************************)
Encodings == {encoded[i] : i \in 1..Len(encoded)}

Decodings == {decoded[i] : i \in 1..Len(decoded)}

\* the text Encode returns for a value that has one encoding
Alone(v) == (CHOOSE r \in Encode(v) : TRUE).wire

C15_StructIsCompleteMap ==
  /\ \A r \in Encodings :
       value \in Structs /\ r.err = NoErr =>
         LET exported == SelectSeq(value.m, LAMBDA f : IsExported(f.k.s))
         IN  r.wire = Header("%", 2 * Len(exported))
                        \o Concat([i \in 1..Len(exported) |->
                                     SimpleString(exported[i].k.s) \o Alone(exported[i].v)])
  /\ \A d \in Decodings : value \in Structs => d.err = NoErr /\ d.left = 0

(***************************************************************************)
(* C16.  Round trip: for a scalar value v that the decoder can return (a    *)
(* text, an integer, a boolean, Null, an error message), Decode of a source *)
(* holding Encode(v) returns ok with a value equal to v and leaves no byte  *)
(* unread.                                                                  *)
(***************************************************************************)
C16_RoundTrip ==
  \A d \in Decodings :
    value.t \in {"string", "int64", "bool", "nil", "error"} =>
      d.err = NoErr /\ d.val = value /\ d.left = 0

(***************************************************************************)
(* C17.  Two Encode calls with the same input return the same text.         *)
(***************************************************************************)
C17_EncodeIsFunction == Len(encoded) = 2 => encoded[1] = encoded[2]

\* the types of the values that Encode reaches in v and that no case matches
RECURSIVE Offending(_)
Offending(v) ==
  IF v.t \in {"string", "bool", "nil", "error", "time.Time"} \cup IntegerTypes \cup FloatTypes
       \cup {"[]string", "[]int", "[]bool", "[]float64"}
    THEN {}
  ELSE IF v.t = "[]interface{}" THEN UNION {Offending(v.e[i]) : i \in 1..Len(v.e)}
  ELSE IF v.t \in {"map[string]interface{}", "map[interface{}]interface{}"}
    THEN UNION {Offending(v.m[i].k) \cup Offending(v.m[i].v) : i \in 1..Len(v.m)}
  ELSE IF v.t = "struct"
    THEN UNION {Offending(v.m[i].v) : i \in {j \in 1..Len(v.m) : IsExported(v.m[j].k.s)}}
  ELSE {v.t}

HeaderLine(rd) == readLineCRLF(ReadByte(rd).rd)

\* the results of n Decode calls, one after the other, from reader rd on
RECURSIVE ChildResults(_, _)
ChildResults(rd, n) ==
  IF n = 0 THEN <<>>
  ELSE LET r == Decode(rd) IN <<r>> \o ChildResults(r.rd, n - 1)

(***************************************************************************)
(* C19.  Decoding an array of declared count n >= 0 returns the n decoded   *)
(* children in wire order; when the decode of child i is not ok, the array  *)
(* decode returns no value and the status of that child (partial for        *)
(* partial or end-of-input, else the child's error unchanged), and reads    *)
(* nothing after the point where child i stopped.                           *)
(***************************************************************************)
C19_ArrayChildren ==
  \A c \in Calls :
    LET rd == Reader(<<>>, Take(rec.wire, c.sent), size)
        hd == HeaderLine(rd)
        n == Atoi(hd.line)
        ch == ChildResults(hd.rd, n.n)
        bad == {i \in 1..n.n : ch[i].err # NoErr}
        first == CHOOSE i \in bad : \A j \in bad : i <= j
    IN  c.at = 0 /\ c.sent > 0 /\ Head(rec.wire) = "*" /\ hd.err = NoErr
          /\ n.err = NoErr /\ n.n >= 0 =>
          /\ bad = {} => /\ c.err = NoErr
                         /\ c.val = Slice([i \in 1..n.n |-> ch[i].val])
                         /\ Len(c.val.e) = n.n
          /\ bad # {} => /\ c.val = Nil
                         /\ c.err = IF IsEOF(ch[first].err) THEN ErrUnexpectedEOF
                                    ELSE ch[first].err
                         /\ c.to = c.sent - Len(ch[first].rd.buf) - Len(ch[first].rd.src)
          /\ rec.class = "wf" /\ Whole(c) => bad = {} /\ c.val = rec.val

C19_Witness ==
  \E c \in Calls :
    /\ rec = ArrayRec(<<Amp, SimpleOK>>) /\ Whole(c)
    /\ c.val = Nil /\ c.err = ErrUnsupportedRespDataType
    /\ c.to = Len(Header("*", 2)) + 1

(***************************************************************************)
(* C20.  Decoding a map of declared size n reads exactly n child records;   *)
(* the bytes after the n-th child are left unread for the next Decode call, *)
(* for every n >= 0, odd n included.                                        *)
(***************************************************************************)
C20_MapReadsExactlyN ==
  \A c \in Calls :
    rec \in Streams /\ Whole(c) => c.err = NoErr /\ c.to = Len(HeadOf[rec].wire)

(***************************************************************************)
(* C21.  A map in which a key decodes to an array or a map is returned with *)
(* status ok as a mixed-key mapping that holds the composite key with its   *)
(* value.                                                                   *)
(***************************************************************************)
C21_CompositeKey ==
  \A c \in Calls :
    rec \in CompositeKeyMaps /\ Whole(c) =>
      /\ c.err = NoErr
      /\ c.val.t = "map[interface{}]interface{}"
      /\ c.val = rec.val
      /\ \E i \in 1..Len(c.val.m) : ~Hashable(c.val.m[i].k)

(***************************************************************************)
(* C24.  Decode is total: every call returns ok, partial, end-of-input or   *)
(* malformed and never crashes; a header that declares a length or count    *)
(* below -1 on $, =, *, !, or -1 on !, is answered with malformed or        *)
(* partial.                                                                 *)
(***************************************************************************)
C24_Total ==
  \A c \in Calls :
    /\ Status(c) \in {"ok", "partial", "end-of-input", "malformed"}
    /\ rec \in Negatives /\ Whole(c) => Status(c) \in {"malformed", "partial"}

(***************************************************************************)
(* C26.  After Decode returns ok the source is positioned at the first byte *)
(* after the decoded record: repeated calls on a source that holds the      *)
(* records r1 ... rk one after the other return v1, ..., vk in order, each  *)
(* call stopping at the end of its record, and then end-of-input.           *)
(***************************************************************************)
C26_Positioned ==
  rec \in Sequences /\ calls # <<>> =>
    \A i \in 1..Len(calls) :
      Whole(calls[1]) =>
        IF i <= Len(PartsOf[rec])
          THEN /\ calls[i].err = NoErr
               /\ calls[i].val = PartsOf[rec][i].val
               /\ calls[i].to = Offset(PartsOf[rec], i)
          ELSE calls[i].err = EOF

(***************************************************************************)
(* C23.  readLineCRLF, checked under SpecLine.  As claimed: it reports      *)
(* partial-data (io.ErrUnexpectedEOF) when the bytes it read end in LF not  *)
(* preceded by CR and when the input ends after at least one byte without   *)
(* a terminating LF; end-of-input (io.EOF) only when no bytes at all were   *)
(* available; on success it returns the line without its CRLF and leaves    *)
(* the bytes after the CRLF unread.                                         *)
(***************************************************************************)
\* the bytes the reader of call c could deliver
Available(c) == SubSeq(rec.wire, c.at + 1, c.sent)

\* call c found a line that ends in CRLF
EndsInCRLF(c) ==
  LET i == IndexByte(Available(c), LF)
  IN  IF i >= 2 THEN Available(c)[i - 1] = CR ELSE FALSE

\* what call c does when the available bytes hold an LF
UpToLF(c) ==
  LET i == IndexByte(Available(c), LF)
  IN  /\ c.to = c.at + i
      /\ IF EndsInCRLF(c)
           THEN c.err = NoErr /\ c.val = Str(Take(Available(c), i - 2))
           ELSE c.err = ErrUnexpectedEOF /\ c.val = Str(<<>>)

C25_OkWhateverTheSize ==
  \A c \in Calls :
    rec.class = "wf" /\ Whole(c) /\ size < defaultBufSize =>
      c.err # ErrUnexpectedEOF /\ c.err = NoErr /\ c.val = rec.val

(***************************************************************************)
(* C22.  Checked under SpecOpen.  Decode never waits for data: on a source  *)
(* that is still open and holds fewer bytes than the record needs, every    *)
(* call returns, and no call is left inside a read of the source.           *)
(***************************************************************************)
C22_NeverWaits == \A c \in Calls : Status(c) # "waiting"

====
